---- MODULE Spec2Model ----
(***************************************************************************)
(* Halfedge data structure of three-mesh-halfedge: the HalfedgeDS class    *)
(* (buildFromGeometry, loops, clear) and computeVerticesIndexArray.         *)
(*                                                                         *)
(* Entities live in three insertion-ordered stores (JavaScript Sets).      *)
(* Nothing is ever removed from a store except by clear(), so an entity is *)
(* named by its 1-based position in its store and Unset (0) stands for     *)
(* undefined/null.  Buffer indices and vertex ids keep the code's 0-based  *)
(* values; a sequence s of the model holds the code's s[k] at s[k+1].      *)
(*                                                                         *)
(* Coordinates are fixed-point numbers counted in tenths, and the          *)
(* tolerance is 10^-e for the exponent e held in options.tolerance.        *)
(***************************************************************************)
EXTENDS Integers, Sequences, FiniteSets, TLC

VARIABLES vertices, halfedges, faces, options, geometry, pc, status,
          indexVertexArray, halfedgeMap, vertexMap, loopHalfedges,
          faceIndex, side, loopsResult

store == <<vertices, halfedges, faces>>
locals == <<indexVertexArray, halfedgeMap, vertexMap, loopHalfedges, faceIndex, side>>
vars == <<vertices, halfedges, faces, options, geometry, pc, status,
          indexVertexArray, halfedgeMap, vertexMap, loopHalfedges,
          faceIndex, side, loopsResult>>

\* Largest number of triangles in an input geometry.
MaxFaces == 2

\* undefined / null reference
Unset == 0

(***************************************************************************)
(* Inputs                                                                  *)
(***************************************************************************)
PA == <<0, 0, 0>>
PB == <<10, 0, 0>>
PC == <<0, 10, 0>>
PD == <<10, 10, 0>>
\* 0.4 away from PA along y: merged with PA at tolerance 1, distinct at 0.1
PNear == <<0, 4, 0>>
\* two points whose rounded components differ but concatenate to the same digits
PH1 == <<1, 11, 0>>
PH2 == <<11, 1, 0>>

\* tolerance = 10^-e
ToleranceExps == {0, 1}

SoupPoints == {PA, PB, PNear}

Triples(S) == {<<a, b, c>> : a \in S, b \in S, c \in S}

RECURSIVE Concats(_, _)
\* all concatenations of k members of T
Concats(T, k) == IF k = 0 THEN {<< >>}
                 ELSE {s \o t : s \in Concats(T, k - 1), t \in T}

UpTo(T) == UNION {Concats(T, k) : k \in 0..MaxFaces}

QuadPositions == <<PA, PB, PC, PD>>
HashPositions == <<PH1, PH2, PA, PB>>
IndexedPositionLists == {QuadPositions, HashPositions}
IndexTriangles == {<<0, 1, 2>>, <<1, 3, 2>>, <<2, 1, 0>>, <<0, 0, 1>>, <<3, 3, 3>>}

\* non-indexed triangle soups: three consecutive positions per face
NonIndexedGeometries ==
  {[hasPosition |-> TRUE, positions |-> p, indexed |-> FALSE, index |-> << >>] :
     p \in UpTo(Triples(SoupPoints))}

IndexedGeometries ==
  {[hasPosition |-> TRUE, positions |-> p, indexed |-> TRUE, index |-> ix] :
     p \in IndexedPositionLists, ix \in UpTo(IndexTriangles)}

NoPositionGeometry ==
  [hasPosition |-> FALSE, positions |-> << >>, indexed |-> FALSE, index |-> << >>]

\* the two triangles [A,B,C] and [B,D,C], indexed and as a soup
QuadIndexed ==
  [hasPosition |-> TRUE, positions |-> QuadPositions, indexed |-> TRUE,
   index |-> <<0, 1, 2, 1, 3, 2>>]

QuadSoup ==
  [hasPosition |-> TRUE, positions |-> <<PA, PB, PC, PB, PD, PC>>,
   indexed |-> FALSE, index |-> << >>]

Geometries == NonIndexedGeometries \cup IndexedGeometries
              \cup {NoPositionGeometry, QuadIndexed, QuadSoup}

(***************************************************************************)
(* computeVerticesIndexArray                                               *)
(***************************************************************************)
DigitChars == <<"0", "1", "2", "3", "4", "5", "6", "7", "8", "9">>

RECURSIVE NatStr(_)
NatStr(n) == IF n < 10 THEN <<DigitChars[n + 1]>>
             ELSE NatStr(n \div 10) \o <<DigitChars[(n % 10) + 1]>>

\* `${n}` for an integer n (Math.round's -0 prints as "0")
NumStr(n) == IF n < 0 THEN <<"-">> \o NatStr(-n) ELSE NatStr(n)

RECURSIVE Pow10(_)
Pow10(e) == IF e = 0 THEN 1 ELSE 10 * Pow10(e - 1)

\* shiftMultiplier = Math.pow(10, Math.log10(1 / tolerance))
ShiftMultiplier(e) == Pow10(e)

\* Math.round(c * shiftMultiplier) for the coordinate c = tenths/10:
\* the nearest integer, halves rounded towards +infinity
Rounded(tenths, e) == (tenths * ShiftMultiplier(e) + 5) \div 10

\* the hash of one position: the three rounded components, concatenated
PositionHash(p, e) ==
  NumStr(Rounded(p[1], e)) \o NumStr(Rounded(p[2], e)) \o NumStr(Rounded(p[3], e))

MapSet(m, k, v) == [x \in (DOMAIN m) \cup {k} |-> IF x = k THEN v ELSE m[x]]

EmptyMap == [x \in {} |-> Unset]

RECURSIVE IndexArrayFrom(_, _, _, _, _)
IndexArrayFrom(positions, e, i, hashMap, indexArray) ==
  IF i >= Len(positions) THEN indexArray
  ELSE LET hash == PositionHash(positions[i + 1], e)
       IN IF hash \in DOMAIN hashMap
          THEN IndexArrayFrom(positions, e, i + 1, hashMap,
                              Append(indexArray, hashMap[hash]))
          ELSE IndexArrayFrom(positions, e, i + 1, MapSet(hashMap, hash, i),
                              Append(indexArray, i))

computeVerticesIndexArray(positions, e) ==
  IndexArrayFrom(positions, e, 0, EmptyMap, << >>)

(***************************************************************************)
(* Entities and primitive operations                                       *)
(***************************************************************************)
\* A fresh halfedge.  addEdge sets neither next nor prev, and the callers
\* read next and prev of halfedges that never were in a face without a test
\* for undefined; the data model requires h.next.prev = h, h.prev.next = h
\* and a closed next-loop after any sequence of primitive operations.  Before
\* addFace wires it, a halfedge is therefore its own next and prev.
NewHalfedge(self, v) ==
  [vertex |-> v, twin |-> Unset, next |-> self, prev |-> self, face |-> Unset]

addVertex(vs, position) ==
  Append(vs, [id |-> -1, position |-> position, halfedge |-> Unset])

\* addEdge that links h2.twin to h2 itself instead of h1
addEdge_TwinOneWay(vs, hes, v1, v2) ==
  LET h1 == Len(hes) + 1
      h2 == Len(hes) + 2
      vsA == IF vs[v1].halfedge = Unset
             THEN [vs EXCEPT ![v1].halfedge = h1] ELSE vs
      vsB == IF vsA[v2].halfedge = Unset
             THEN [vsA EXCEPT ![v2].halfedge = h2] ELSE vsA
  IN [vs  |-> vsB,
      hes |-> hes \o <<[NewHalfedge(h1, v1) EXCEPT !.twin = h2],
                       [NewHalfedge(h2, v2) EXCEPT !.twin = h2]>>,
      h1  |-> h1]

\* the result of addEdge: the updated vertex and halfedge stores, and h1
addEdge(vs, hes, v1, v2) ==
  LET h1 == Len(hes) + 1
      h2 == Len(hes) + 2
      vsA == IF vs[v1].halfedge = Unset
             THEN [vs EXCEPT ![v1].halfedge = h1] ELSE vs
      vsB == IF vsA[v2].halfedge = Unset
             THEN [vsA EXCEPT ![v2].halfedge = h2] ELSE vsA
  IN [vs  |-> vsB,
      hes |-> hes \o <<[NewHalfedge(h1, v1) EXCEPT !.twin = h2],
                       [NewHalfedge(h2, v2) EXCEPT !.twin = h1]>>,
      h1  |-> h1]

RECURSIVE WireLoop(_, _, _)
\* loop[i].next = loop[i+1]; loop[i+1].prev = loop[i], for i = k .. n, in order
WireLoop(hes, loop, k) ==
  IF k > Len(loop) THEN hes
  ELSE LET curr == loop[k]
           nxt  == loop[(k % Len(loop)) + 1]
           a    == [hes EXCEPT ![curr].next = nxt]
           b    == [a EXCEPT ![nxt].prev = curr]
       IN WireLoop(b, loop, k + 1)

AnyFaceSet(hes, loop) == \E k \in 1..Len(loop) : hes[loop[k]].face # Unset

\* the result of addFace: failed, or the updated halfedge and face stores
addFace(hes, fs, loop) ==
  IF AnyFaceSet(hes, loop)
  THEN [failed |-> TRUE, hes |-> hes, fs |-> fs]
  ELSE LET f == Len(fs) + 1
           wired == WireLoop(hes, loop, 1)
           inLoop == {loop[k] : k \in 1..Len(loop)}
       IN [failed |-> FALSE,
           hes |-> [h \in 1..Len(wired) |->
                      IF h \in inLoop THEN [wired[h] EXCEPT !.face = f] ELSE wired[h]],
           fs  |-> Append(fs, [id |-> -1, halfedge |-> loop[1]])]

(***************************************************************************)
(* Halfedge.nextLoop and HalfedgeDS.loops                                  *)
(***************************************************************************)
RECURSIVE NextLoopFrom(_, _, _, _)
\* the halfedges yielded from cur on, until start comes round again; a walk
\* that has yielded every halfedge without meeting start never ends
NextLoopFrom(hes, start, cur, seen) ==
  LET yielded == Append(seen, cur)
  IN IF hes[cur].next = start THEN yielded
     ELSE IF Len(yielded) > Len(hes) THEN yielded
     ELSE NextLoopFrom(hes, start, hes[cur].next, yielded)

nextLoop(hes, start) == NextLoopFrom(hes, start, start, << >>)

Range(s) == {s[k] : k \in 1..Len(s)}

RECURSIVE LoopsFrom_NoHandled(_, _, _, _)
\* loops() without the test of the handled set
LoopsFrom_NoHandled(hes, h, handled, loops) ==
  IF h > Len(hes) THEN loops
  ELSE LoopsFrom_NoHandled(hes, h + 1, handled \cup Range(nextLoop(hes, h)),
                           Append(loops, h))

RECURSIVE LoopsFrom(_, _, _, _)
LoopsFrom(hes, h, handled, loops) ==
  IF h > Len(hes) THEN loops
  ELSE IF h \notin handled
       THEN LoopsFrom(hes, h + 1, handled \cup Range(nextLoop(hes, h)),
                      Append(loops, h))
       ELSE LoopsFrom(hes, h + 1, handled, loops)

loopsOf(hes) == LoopsFrom(hes, 1, {}, << >>)

(***************************************************************************)
(* buildFromGeometry                                                       *)
(***************************************************************************)
nbOfFaces(g) == IF g.indexed THEN Len(g.index) \div 3 ELSE Len(g.positions) \div 3

getVertexIndex(g, iva, bufferIndex) ==
  IF g.indexed THEN iva[g.index[bufferIndex + 1] + 1] ELSE iva[bufferIndex + 1]

\* i1 + '-' + i2
EdgeHash(i1, i2) == NumStr(i1) \o <<"-">> \o NumStr(i2)

\* the vertex lookup without vertexMap.set
EnsureVertex_NoMemo(vs, vmap, g, ix) ==
  IF ix \in DOMAIN vmap
  THEN [vs |-> vs, vmap |-> vmap, v |-> vmap[ix]]
  ELSE LET added == addVertex(vs, g.positions[ix + 1])
           v == Len(added)
       IN [vs |-> [added EXCEPT ![v].id = ix], vmap |-> vmap, v |-> v]

\* vertexMap.get(ix), creating and memoizing the vertex when absent
EnsureVertex(vs, vmap, g, ix) ==
  IF ix \in DOMAIN vmap
  THEN [vs |-> vs, vmap |-> vmap, v |-> vmap[ix]]
  ELSE LET added == addVertex(vs, g.positions[ix + 1])
           v == Len(added)
       IN [vs |-> [added EXCEPT ![v].id = ix],
           vmap |-> MapSet(vmap, ix, v),
           v |-> v]

\* the registration without halfedgeMap.set(hash2, h2)
RegisterEdge_ForwardOnly(hmap, hash1, hash2, h1, h2) ==
  MapSet(hmap, hash1, h1)

\* halfedgeMap.set(hash1, h1); halfedgeMap.set(hash2, h2)
RegisterEdge(hmap, hash1, hash2, h1, h2) ==
  MapSet(MapSet(hmap, hash1, h1), hash2, h2)

\* a build that catches the error of addFace and goes on to the next face
AfterFace_Swallow(failed, fi, sd, nb) ==
  IF fi + 1 < nb
  THEN [pc |-> "side", status |-> "building", faceIndex |-> fi + 1, side |-> 0]
  ELSE [pc |-> "idle", status |-> "ok", faceIndex |-> fi + 1, side |-> 0]

\* where buildFromGeometry stands after addFace returned or threw: an error
\* leaves the function at once, with the locals as they were
AfterFace(failed, fi, sd, nb) ==
  IF failed
  THEN [pc |-> "idle", status |-> "NonManifoldConstructionError",
        faceIndex |-> fi, side |-> sd]
  ELSE IF fi + 1 < nb
       THEN [pc |-> "side", status |-> "building", faceIndex |-> fi + 1, side |-> 0]
       ELSE [pc |-> "idle", status |-> "ok", faceIndex |-> fi + 1, side |-> 0]

Init ==
  /\ vertices = << >>
  /\ halfedges = << >>
  /\ faces = << >>
  /\ options \in [tolerance : ToleranceExps]
  /\ geometry \in Geometries
  /\ pc = "idle"
  /\ status = "none"
  /\ indexVertexArray = << >>
  /\ halfedgeMap = EmptyMap
  /\ vertexMap = EmptyMap
  /\ loopHalfedges = <<Unset, Unset, Unset>>
  /\ faceIndex = 0
  /\ side = 0
  /\ loopsResult = [called |-> FALSE, loops |-> << >>]

\* clear()
Clear ==
  /\ pc = "idle"
  /\ vertices' = << >>
  /\ halfedges' = << >>
  /\ faces' = << >>
  /\ status' = "none"
  /\ loopsResult' = [called |-> FALSE, loops |-> << >>]
  /\ UNCHANGED <<options, geometry, pc, locals>>

\* buildFromGeometry up to the face loop
BuildStart ==
  /\ pc = "idle"
  /\ vertices' = << >>
  /\ halfedges' = << >>
  /\ faces' = << >>
  /\ loopsResult' = [called |-> FALSE, loops |-> << >>]
  /\ halfedgeMap' = EmptyMap
  /\ vertexMap' = EmptyMap
  /\ loopHalfedges' = <<Unset, Unset, Unset>>
  /\ faceIndex' = 0
  /\ side' = 0
  /\ IF ~geometry.hasPosition
     THEN /\ status' = "MissingAttributeError"
          /\ pc' = "idle"
          /\ indexVertexArray' = << >>
     ELSE /\ indexVertexArray' =
               computeVerticesIndexArray(geometry.positions, options.tolerance)
          /\ IF nbOfFaces(geometry) > 0
             THEN pc' = "side" /\ status' = "building"
             ELSE pc' = "idle" /\ status' = "ok"
  /\ UNCHANGED <<options, geometry>>

\* one iteration of the loop over the sides of the current face
BuildSide ==
  /\ pc = "side"
  /\ LET i1 == getVertexIndex(geometry, indexVertexArray, faceIndex * 3 + side)
         r1 == EnsureVertex(vertices, vertexMap, geometry, i1)
         i2 == getVertexIndex(geometry, indexVertexArray,
                              faceIndex * 3 + ((side + 1) % 3))
         r2 == EnsureVertex(r1.vs, r1.vmap, geometry, i2)
         hash1 == EdgeHash(i1, i2)
         hash2 == EdgeHash(i2, i1)
         e == addEdge(r2.vs, halfedges, r1.v, r2.v)
     IN /\ vertexMap' = r2.vmap
        /\ IF hash1 \in DOMAIN halfedgeMap
           THEN /\ vertices' = r2.vs
                /\ halfedges' = halfedges
                /\ halfedgeMap' = halfedgeMap
                /\ loopHalfedges' = [loopHalfedges EXCEPT ![side + 1] = halfedgeMap[hash1]]
           ELSE /\ vertices' = e.vs
                /\ halfedges' = e.hes
                /\ halfedgeMap' = RegisterEdge(halfedgeMap, hash1, hash2,
                                               e.h1, e.hes[e.h1].twin)
                /\ loopHalfedges' = [loopHalfedges EXCEPT ![side + 1] = e.h1]
  /\ side' = side + 1
  /\ pc' = IF side + 1 < 3 THEN "side" ELSE "face"
  /\ UNCHANGED <<faces, options, geometry, status, indexVertexArray, faceIndex,
                 loopsResult>>

\* addFace for the three collected halfedges, and the step to the next face
BuildFace ==
  /\ pc = "face"
  /\ LET r == addFace(halfedges, faces, loopHalfedges)
         after == AfterFace(r.failed, faceIndex, side, nbOfFaces(geometry))
     IN /\ halfedges' = r.hes
        /\ faces' = IF r.failed THEN r.fs
                    ELSE [r.fs EXCEPT ![Len(r.fs)].id = faceIndex]
        /\ pc' = after.pc
        /\ status' = after.status
        /\ faceIndex' = after.faceIndex
        /\ side' = after.side
  /\ UNCHANGED <<vertices, options, geometry, indexVertexArray, halfedgeMap,
                 vertexMap, loopHalfedges, loopsResult>>

\* the caller takes the position attribute off the geometry between builds
DeletePosition ==
  /\ pc = "idle"
  /\ geometry.hasPosition
  /\ status \in {"ok", "NonManifoldConstructionError"}
  /\ geometry' = [geometry EXCEPT !.hasPosition = FALSE]
  /\ UNCHANGED <<store, options, pc, status, locals, loopsResult>>

\* loops()
Loops ==
  /\ pc = "idle"
  /\ loopsResult' = [called |-> TRUE, loops |-> loopsOf(halfedges)]
  /\ UNCHANGED <<store, options, geometry, pc, status, locals>>

Next == BuildStart \/ BuildSide \/ BuildFace \/ Loops \/ Clear \/ DeletePosition

Spec == Init /\ [][Next]_vars

(***************************************************************************)
(* Vocabulary of the properties                                            *)
(***************************************************************************)
HE == 1..Len(halfedges)

\* buildFromGeometry returned normally
Done == pc = "idle" /\ status = "ok"

\* buildFromGeometry threw
Failed == pc = "idle" /\ status \in {"MissingAttributeError", "NonManifoldConstructionError"}

\* computeVerticesIndexArray has run for the current geometry
Merged == status \in {"building", "ok", "NonManifoldConstructionError"}

StoreEmpty == vertices = << >> /\ halfedges = << >> /\ faces = << >>

\* the canonical vertex indices of face f, in face order
CanonTri(f) == [k \in 1..3 |->
                  getVertexIndex(geometry, indexVertexArray, f * 3 + (k - 1))]

\* the ordered canonical pair of side k (1..3) of face f
SideOf(f, k) == <<CanonTri(f)[k], CanonTri(f)[(k % 3) + 1]>>

Sides(f) == {SideOf(f, k) : k \in 1..3}

FaceIndices == 0..(nbOfFaces(geometry) - 1)

\* the sides the build has resolved so far
ProcessedSides ==
  IF ~Merged THEN {}
  ELSE UNION {Sides(f) : f \in 0..(faceIndex - 1)}
       \cup {SideOf(faceIndex, k) : k \in 1..side}

\* the halfedges yielded by nextLoop(h), and whether the walk came back to h
LoopOf(h) == nextLoop(halfedges, h)

Closes(h) == halfedges[LoopOf(h)[Len(LoopOf(h))]].next = h

\* the number of next steps that lead from h back to h, 0 when none does
LoopLen(h) == IF Closes(h) THEN Len(LoopOf(h)) ELSE 0

\* the rounded, multiplier-scaled components of a position
Quantized(p) == <<Rounded(p[1], options.tolerance), Rounded(p[2], options.tolerance),
                  Rounded(p[3], options.tolerance)>>

QuantizedDistinct ==
  \A i, j \in 1..Len(geometry.positions) :
    i # j => Quantized(geometry.positions[i]) # Quantized(geometry.positions[j])

(***************************************************************************)
(* C1  Twin symmetry                                                       *)
(***************************************************************************)
\* C1: after every successful buildFromGeometry, every halfedge h of the
\* store has its twin in the store, h.twin # h and h.twin.twin = h.
C1_TwinSymmetry ==
  Done => \A h \in HE :
            /\ halfedges[h].twin \in HE
            /\ halfedges[h].twin # h
            /\ halfedges[halfedges[h].twin].twin = h

\* a successful build of two faces in which the tolerance merged two positions
\* and one side runs from a canonical vertex to itself
C1_Witness ==
  /\ Done
  /\ Len(faces) = 2
  /\ \E i \in 1..Len(indexVertexArray) : indexVertexArray[i] # i - 1
  /\ \E h \in HE : halfedges[h].vertex = halfedges[halfedges[h].twin].vertex

(***************************************************************************)
(* C2  next/prev inverse                                                   *)
(***************************************************************************)
\* C2: after every completed build, h.next.prev = h and h.prev.next = h for
\* every halfedge h of the store.
C2_NextPrevInverse ==
  Done => \A h \in HE :
            /\ halfedges[h].next \in HE
            /\ halfedges[h].prev \in HE
            /\ halfedges[halfedges[h].next].prev = h
            /\ halfedges[halfedges[h].prev].next = h

(***************************************************************************)
(* C3  Loop closure                                                        *)
(***************************************************************************)
\* C3: after a completed build, iterating next from any halfedge h comes back
\* to h, after exactly 3 steps when h bounds a (triangle) face.
C3_LoopClosure ==
  Done => \A h \in HE :
            /\ LoopLen(h) >= 1
            /\ halfedges[h].face # Unset => LoopLen(h) = 3

(***************************************************************************)
(* C4  Face consistency                                                    *)
(***************************************************************************)
\* C4: after a completed build, every halfedge in the next-loop of a halfedge
\* h with a face has h's face, and that loop has the face's 3 sides.
C4_FaceConsistency ==
  Done => \A h \in HE :
            halfedges[h].face # Unset =>
              /\ \A g \in Range(LoopOf(h)) : halfedges[g].face = halfedges[h].face
              /\ Closes(h)
              /\ Cardinality(Range(LoopOf(h))) = 3

(***************************************************************************)
(* C5  Loop partition                                                      *)
(***************************************************************************)
\* the representatives whose next-loop holds h
RepsOf(h) == {k \in 1..Len(loopsResult.loops) :
                h \in Range(nextLoop(halfedges, loopsResult.loops[k]))}

LoopsPartition ==
  loopsResult.called =>
    /\ \A k \in 1..Len(loopsResult.loops) : loopsResult.loops[k] \in HE
    /\ \A h \in HE : Cardinality(RepsOf(h)) = 1

\* C5: every halfedge of the store belongs to the next-loop of exactly one
\* representative returned by loops(), and loops() leaves the graph unchanged.
C5_LoopsPartition ==
  /\ []LoopsPartition
  /\ [][(~loopsResult.called /\ loopsResult'.called) => UNCHANGED store]_vars

\* loops() has returned on a graph with a face loop and boundary halfedges,
\* with fewer representatives than halfedges
C5_Witness ==
  /\ loopsResult.called
  /\ Len(faces) >= 1
  /\ \E h \in HE : halfedges[h].face = Unset
  /\ Len(loopsResult.loops) < Len(halfedges)

(***************************************************************************)
(* C6  Store after a failed build                                          *)
(***************************************************************************)
\* C6: whenever buildFromGeometry fails, the store is left empty.
C6_ClearedOnFailure == Failed => StoreEmpty

(***************************************************************************)
(* C8  Vertex dedup                                                        *)
(***************************************************************************)
\* C8: when no two input positions have the same rounded (x,y,z) triple,
\* computeVerticesIndexArray returns the identity.
C8_DedupIdentity ==
  (Merged /\ QuantizedDistinct) =>
    \A i \in 1..Len(indexVertexArray) : indexVertexArray[i] = i - 1

(***************************************************************************)
(* C7  A halfedge bounds at most one face                                  *)
(***************************************************************************)
\* faces t < u of the input run along one canonical directed edge
SameDirection(t, u) == Sides(t) \cap Sides(u) # {}

\* the same, along an edge between two different canonical vertices
SameDirectionProper(t, u) == \E s \in Sides(t) \cap Sides(u) : s[1] # s[2]

BuildEnded == pc = "idle" /\ status \in {"ok", "NonManifoldConstructionError"}

\* the build stopped at the face it could not add: that face and the later
\* ones are not in the store
Aborted ==
  (pc = "idle" /\ status = "NonManifoldConstructionError") =>
    /\ faceIndex < nbOfFaces(geometry)
    /\ Len(faces) = faceIndex
    /\ \A f \in 1..Len(faces) : faces[f].id = f - 1

\* no step replaces the face of a halfedge that stays in the store
FaceKept ==
  \A h \in HE :
    (halfedges[h].face # Unset /\ h <= Len(halfedges'))
      => halfedges'[h].face = halfedges[h].face

\* C7 as stated: two triangles along the same canonical directed edge (i1,i2)
\* make the build fail at the later one at the latest.
C7_SameDirectionFails ==
  BuildEnded =>
    \A t, u \in FaceIndices :
      (t < u /\ SameDirection(t, u)) =>
        (status = "NonManifoldConstructionError" /\ faceIndex <= u)

SameDirectionProperFails ==
  BuildEnded =>
    \A t, u \in FaceIndices :
      (t < u /\ SameDirectionProper(t, u)) =>
        (status = "NonManifoldConstructionError" /\ faceIndex <= u)

\* C7, amended: two triangles along the same canonical directed edge (i1,i2)
\* with i1 # i2 make addFace fail for the later one at the latest, the failure
\* ends the build there, and no halfedge's face is ever replaced.
C7_AtMostOneFace ==
  /\ [](SameDirectionProperFails /\ Aborted)
  /\ [][FaceKept]_vars

\* a build that failed at its second face, which repeats a directed edge of
\* the first, leaving the first face bound
C7_Witness ==
  /\ pc = "idle"
  /\ status = "NonManifoldConstructionError"
  /\ faceIndex = 1
  /\ SameDirectionProper(0, 1)
  /\ \E h \in HE : halfedges[h].face = 1

(***************************************************************************)
(* C9  Two triangles sharing one edge                                      *)
(***************************************************************************)
QuadBuilt == Done /\ geometry \in {QuadIndexed, QuadSoup} /\ Len(faces) = 2

\* the next-loops made of halfedges without a face
BoundaryLoops == {Range(LoopOf(h)) : h \in {g \in HE : halfedges[g].face = Unset}}

\* C9 as stated: 4 vertices, 10 halfedges, 2 faces and exactly one boundary
\* loop, of length 6.
C9_QuadOneBoundaryLoopOfSix ==
  QuadBuilt =>
    /\ Len(vertices) = 4
    /\ Len(halfedges) = 10
    /\ Len(faces) = 2
    /\ Cardinality(BoundaryLoops) = 1
    /\ \A l \in BoundaryLoops : Cardinality(l) = 6

\* C9, amended: 4 vertices, 5 twin pairs (10 halfedges), 2 faces of 3
\* halfedges each, and 4 halfedges without a face, each the twin of a
\* halfedge with one: the boundary has 4 halfedges, not 6.
C9_QuadCounts ==
  QuadBuilt =>
    /\ Len(vertices) = 4
    /\ Len(halfedges) = 10
    /\ Len(faces) = 2
    /\ \A f \in 1..Len(faces) :
         Cardinality({h \in HE : halfedges[h].face = f}) = 3
    /\ Cardinality({h \in HE : halfedges[h].face = Unset}) = 4
    /\ \A h \in HE : halfedges[h].face = Unset =>
                       halfedges[halfedges[h].twin].face # Unset

C9_Witness == QuadBuilt /\ geometry = QuadIndexed /\ Len(faces) = 2

(***************************************************************************)
(* C10  Edge reuse                                                         *)
(***************************************************************************)
Registered(s) == EdgeHash(s[1], s[2]) \in DOMAIN halfedgeMap

MapAt(s) == halfedgeMap[EdgeHash(s[1], s[2])]

Reverse(s) == <<s[2], s[1]>>

\* the halfedge registered for a side runs from the side's first vertex to
\* its second
RunsAlong(s) ==
  /\ halfedges[MapAt(s)].vertex = vertexMap[s[1]]
  /\ halfedges[halfedges[MapAt(s)].twin].vertex = vertexMap[s[2]]

\* one twin pair per unordered canonical pair used as a side
OnePairPerEdge ==
  Len(halfedges) = 2 * Cardinality({{s[1], s[2]} : s \in ProcessedSides})

\* in a completed build, sides of two faces along one edge in opposite
\* directions are the two twins of one pair
OppositeAreTwins ==
  Done =>
    \A t, u \in FaceIndices : \A s \in Sides(t) :
      (t # u /\ Reverse(s) \in Sides(u)) =>
        \E h \in HE : /\ halfedges[h].face = t + 1
                      /\ halfedges[halfedges[h].twin].face = u + 1
                      /\ halfedges[h].vertex = vertexMap[s[1]]
                      /\ halfedges[halfedges[h].twin].vertex = vertexMap[s[2]]

\* C10 as stated: (i1,i2) is registered to the halfedge h1 its first side
\* created and used, and (i2,i1) to h1.twin; later sides reuse the registered
\* halfedge and create none.
C10_EdgeReuse ==
  /\ \A s \in ProcessedSides :
       /\ Registered(s) /\ Registered(Reverse(s))
       /\ RunsAlong(s)
       /\ MapAt(Reverse(s)) = halfedges[MapAt(s)].twin
  /\ \A k \in 1..side : pc \in {"side", "face"} =>
       loopHalfedges[k] = MapAt(SideOf(faceIndex, k))
  /\ OnePairPerEdge
  /\ OppositeAreTwins

\* C10, amended: as stated for i1 # i2; for a side with i1 = i2 the two
\* keys are one key, whose entry ends as h1.twin, so the side that created
\* the pair used h1 and the later sides on (i1,i1) reuse h1.twin.
C10_EdgeReuseAmended ==
  /\ \A s \in ProcessedSides :
       /\ Registered(s) /\ Registered(Reverse(s))
       /\ RunsAlong(s)
       /\ s[1] # s[2] => MapAt(Reverse(s)) = halfedges[MapAt(s)].twin
  /\ \A k \in 1..side : pc \in {"side", "face"} =>
       LET s == SideOf(faceIndex, k)
       IN IF s[1] # s[2]
          THEN loopHalfedges[k] = MapAt(s)
          ELSE loopHalfedges[k] \in {MapAt(s), halfedges[MapAt(s)].twin}
  /\ OnePairPerEdge
  /\ OppositeAreTwins

\* two faces along one edge between different vertices in opposite
\* directions, built with the pairs of the first face's edges reused
C10_Witness ==
  /\ Done
  /\ Len(faces) = 2
  /\ Len(halfedges) < 12
  /\ \E s \in Sides(0) : s[1] # s[2] /\ Reverse(s) \in Sides(1)

====
